---- MODULE Spec2Model ----
(***************************************************************************)
(* The crossword CSP solver of src/crossword/generate.py                   *)
(* (class CrosswordCreator): node consistency, revise / AC-3, the          *)
(* consistency predicates, the variable ordering heuristic and the         *)
(* backtracking search.                                                    *)
(*                                                                         *)
(* Words are sequences of letters.  Python indices are 0-based, TLA+       *)
(* sequences are 1-based: word[i] in the code is word[i + 1] here, and an  *)
(* index i is in range iff i < Len(word) (indices are never negative).     *)
(*                                                                         *)
(* Python sets iterate in an order that depends on the process' hash seed  *)
(* (Variable hashes a direction string, words are strings).  Every         *)
(* iteration over a set is therefore a nondeterministic choice of order.   *)
(***************************************************************************)
EXTENDS Integers, Sequences, FiniteSets, TLC

VARIABLES
    crossword,  \* self.crossword: [variables, words, overlaps], never mutated
    domains,    \* self.domains: Variable -> set of words
    pc,         \* position of the running call
    call,       \* the call the caller made: [op |-> ..., ...arguments]
    pre,        \* self.domains when the call (or, in solve, its current stage) began
    ret,        \* what the last finished call returned (or raised)
    queue,      \* ac3's worklist: a sequence of arcs <<x, y>>
    cur,        \* backtrack: the assignment passed to the innermost call
    stack,      \* backtrack: one frame per call suspended in its for loop
    result      \* backtrack / solve: the assignment returned (when ret = "assignment")

vars == <<crossword, domains, pc, call, pre, ret, queue, cur, stack, result>>

----------------------------------------------------------------------------
(* Bounds of the model *)

\* Largest word pool of a crossword.
MaxWords == 3

\* Largest word pool of a crossword whose domains are set before a call of
\* enforce_node_consistency, revise or ac3.
MaxPropagateWords == 2

Letters == {"a", "b"}

\* Every run of the grids below has length 2: a word of length 1 is too
\* short for it.
WordLens == {1, 2}

\* One word that is too long for every run.
LongWords == {[k \in 1..3 |-> "a"]}

Vocabulary == UNION {[1..n -> Letters] : n \in WordLens} \cup LongWords

Pools(n) == {S \in SUBSET Vocabulary : Cardinality(S) <= n}

----------------------------------------------------------------------------
(* Generic helpers *)

Range(s) == {s[k] : k \in 1..Len(s)}

\* All sequences without repetition of at most n elements of S.
Lists(S, n) ==
    {s \in UNION {[1..m -> S] : m \in 0..n} :
        \A k, l \in 1..Len(s) : s[k] = s[l] => k = l}

\* All orderings of a finite set.
Perms(S) == {s \in Lists(S, Cardinality(S)) : Len(s) = Cardinality(S)}

----------------------------------------------------------------------------
(* The problem model: Variable and Crossword *)

Var(i, j, direction, length) ==
    [i |-> i, j |-> j, direction |-> direction, length |-> length]

\* Variable.cells: the grid cells of the run, in word order.
Cells(v) ==
    [k \in 1..v.length |->
        <<v.i + (IF v.direction = "down" THEN k - 1 ELSE 0),
          v.j + (IF v.direction = "across" THEN k - 1 ELSE 0)>>]

\* 0-based position of cell c in Cells(v).
CellIndex(v, c) == (CHOOSE k \in 1..v.length : Cells(v)[k] = c) - 1

\* overlaps[x, y] is None when the runs share no cell.
None == <<>>

ComputeOverlap(x, y) ==
    LET common == Range(Cells(x)) \cap Range(Cells(y))
    IN  IF common = {} THEN None
        ELSE LET c == CHOOSE c \in common : TRUE
             IN  <<CellIndex(x, c), CellIndex(y, c)>>

\* The Crossword object for a set of runs and a word pool.
Crossword(vs, ws) ==
    [variables |-> vs,
     words     |-> ws,
     overlaps  |-> [p \in {q \in vs \X vs : q[1] # q[2]} |->
                        ComputeOverlap(p[1], p[2])]]

\* Crossword.neighbors(var)
Neighbors(v) ==
    {u \in crossword.variables : u # v /\ crossword.overlaps[<<u, v>>] # None}

(* The grids ("_" fillable, "#" blocked):
     Grid0:  #       no run of length >= 2
     Grid1:  __      one across run
     Grid2:  __      across run 0,0 and down run 0,1; they share cell
             #_      (0,1): index 1 of the across run, 0 of the down run
     Grid3:  __#     across run 0,0, down run 0,1, across run 1,1: the down
             #__     run meets both across runs (at its indices 0 and 1),
                     the across runs do not meet                           *)
Grid0 == {}
Grid1 == {Var(0, 0, "across", 2)}
Grid2 == {Var(0, 0, "across", 2), Var(0, 1, "down", 2)}
Grid3 == {Var(0, 0, "across", 2), Var(0, 1, "down", 2), Var(1, 1, "across", 2)}

Grids == {Grid0, Grid1, Grid2, Grid3}

----------------------------------------------------------------------------
(* Assignments: a Python dict, kept as the sequence of its <<variable, word>> *)
(* items in insertion order (the order consistent() iterates in).             *)

Keys(a) == {a[k][1] : k \in 1..Len(a)}

\* assignment[v], for v in Keys(a)
Lookup(a, v) == a[CHOOSE k \in 1..Len(a) : a[k][1] = v][2]

\* All dicts whose keys are among vs and whose values are among ws.
Assignments(vs, ws) ==
    {a \in UNION {[1..n -> vs \X ws] : n \in 0..Cardinality(vs)} :
        \A k, l \in 1..Len(a) : a[k][1] = a[l][1] => k = l}

----------------------------------------------------------------------------
(* enforce_node_consistency *)

NodeConsistentWordsAtMost(variable, domain) ==
    {word \in domain : Len(word) <= variable.length}

\* The filter of lines 107-109, for one variable.
NodeConsistentWords(variable, domain) ==
    {word \in domain : Len(word) = variable.length}

EnforceNodeConsistency(doms) ==
    [variable \in DOMAIN doms |-> NodeConsistentWords(variable, doms[variable])]

----------------------------------------------------------------------------
(* revise *)

(* What the loop body of revise does with one word_x:                      *)
(*   "keep"   any(...) found a word_y with word_x[i] == word_y[j];          *)
(*   "remove" any(...) ran through self.domains[y] and found none;          *)
(*   "raise"  word_x[i] or word_y[j] was out of range (IndexError) before   *)
(*            a match was found.  With an empty self.domains[y] the         *)
(*            generator evaluates nothing, so nothing is raised.            *)
(* self.domains[y] is iterated in any order, so a match and a too short     *)
(* word_y in the same domain allow both "keep" and "raise".                 *)
ReviseWordAll(word_x, i, j, domain_y) ==
    IF domain_y = {} THEN {"keep"}
    ELSE IF i >= Len(word_x) THEN {"raise"}
    ELSE LET short == {word_y \in domain_y : j >= Len(word_y)}
             mismatch == {word_y \in domain_y :
                             j < Len(word_y) /\ word_x[i + 1] # word_y[j + 1]}
         IN  (IF mismatch # {} THEN {"remove"} ELSE {})
             \cup (IF short # {} THEN {"raise"} ELSE {})
             \cup (IF mismatch = {} /\ short = {} THEN {"keep"} ELSE {})

ReviseWord(word_x, i, j, domain_y) ==
    IF domain_y = {} THEN {"remove"}
    ELSE IF i >= Len(word_x) THEN {"raise"}
    ELSE LET short == {word_y \in domain_y : j >= Len(word_y)}
             match == {word_y \in domain_y :
                          j < Len(word_y) /\ word_x[i + 1] = word_y[j + 1]}
         IN  (IF match # {} THEN {"keep"} ELSE {})
             \cup (IF short # {} THEN {"raise"} ELSE {})
             \cup (IF match = {} /\ short = {} THEN {"remove"} ELSE {})

\* Lines 126 and 129-131: revised is set exactly when a word is removed.
RevisedAlways(removed) == TRUE

Revised(removed) == removed # {}

(* The outcomes of revise(x, y) on domains doms: the new self.domains[x]   *)
(* and the value returned ("True", "False") or the exception raised.  When *)
(* a word raises, the words removed before it stay removed.                *)
ReviseOutcomes(doms, x, y) ==
    LET overlap == crossword.overlaps[<<x, y>>]
    IN  IF overlap = None THEN {[dom |-> doms[x], ret |-> "False"]}
        ELSE
        LET i == overlap[1]
            j == overlap[2]
            does(w) == ReviseWord(w, i, j, doms[y])
            removable == {w \in doms[x] : "remove" \in does(w)}
            canRaise  == {w \in doms[x] : "raise" \in does(w)}
            mustRaise == {w \in doms[x] : does(w) = {"raise"}}
        IN  (IF mustRaise = {}
                THEN {[dom |-> doms[x] \ removable,
                       ret |-> IF Revised(removable) THEN "True" ELSE "False"]}
                ELSE {})
            \cup
            (IF canRaise # {}
                THEN {[dom |-> doms[x] \ removed, ret |-> "IndexError"] :
                          removed \in SUBSET removable}
                ELSE {})

----------------------------------------------------------------------------
(* ac3 *)

\* Lines 144-148: every (var, neighbour) pair.
AllArcs ==
    {<<var, neighbour>> \in crossword.variables \X crossword.variables :
        var # neighbour /\ neighbour \in Neighbors(var)}

ArcsToRecheckOutgoing(x, y) == {<<x, z>> : z \in Neighbors(x) \ {y}}

ArcsToRecheckNone(x, y) == {}

\* Line 155-156: the arcs appended after revise(x, y) changed x's domain.
ArcsToRecheck(x, y) == {<<z, x>> : z \in Neighbors(x) \ {y}}

DomainEmptiedOrSingle(domain) == Cardinality(domain) <= 1

\* Line 153: len(self.domains[x]) == 0
DomainEmptied(domain) == Cardinality(domain) = 0

\* Where a finished (or failed) call continues: inside solve(), at the next
\* statement of solve; otherwise back in the caller.
AfterAC3 == IF call.op = "solve" THEN "solve_backtrack" ELSE "returned"

\* One iteration of the while loop of lines 150-157.
AC3Step ==
    /\ pc = "ac3_loop"
    /\ Len(queue) > 0
    /\ LET x == Head(queue)[1]
           y == Head(queue)[2]
       IN  \E o \in ReviseOutcomes(domains, x, y) :
             /\ domains' = [domains EXCEPT ![x] = o.dom]
             /\ IF o.ret = "IndexError"
                   THEN /\ pc' = "raised"
                        /\ ret' = "IndexError"
                        /\ queue' = Tail(queue)
                   ELSE IF o.ret = "True" /\ DomainEmptied(o.dom)
                   THEN /\ pc' = AfterAC3
                        /\ ret' = "False"
                        /\ queue' = Tail(queue)
                   ELSE IF o.ret = "True"
                   THEN /\ pc' = pc
                        /\ ret' = ret
                        /\ \E more \in Perms(ArcsToRecheck(x, y)) :
                              queue' = Tail(queue) \o more
                   ELSE /\ pc' = pc
                        /\ ret' = ret
                        /\ queue' = Tail(queue)
    /\ UNCHANGED <<crossword, call, pre, cur, stack, result>>

\* Line 158: the worklist is empty.
AC3Return ==
    /\ pc = "ac3_loop"
    /\ Len(queue) = 0
    /\ pc' = AfterAC3
    /\ ret' = "True"
    /\ UNCHANGED <<crossword, domains, call, pre, queue, cur, stack, result>>

\* The list s without its element at position k (queue.pop(k - 1)).
WithoutAt(s, k) == SubSeq(s, 1, k - 1) \o SubSeq(s, k + 1, Len(s))

(* The loop body of lines 150-157 under any worklist discipline: the arc   *)
(* revised next is any queued arc (queue.pop(k) for any position k; the    *)
(* code's queue.pop(0) is the case k = 1 of AC3Step).                      *)
AC3StepAnyOrder ==
    /\ pc = "ac3_loop"
    /\ \E k \in 1..Len(queue) :
         LET x == queue[k][1]
             y == queue[k][2]
             rest == WithoutAt(queue, k)
         IN  \E o \in ReviseOutcomes(domains, x, y) :
               /\ domains' = [domains EXCEPT ![x] = o.dom]
               /\ IF o.ret = "IndexError"
                     THEN /\ pc' = "raised"
                          /\ ret' = "IndexError"
                          /\ queue' = rest
                     ELSE IF o.ret = "True" /\ DomainEmptied(o.dom)
                     THEN /\ pc' = AfterAC3
                          /\ ret' = "False"
                          /\ queue' = rest
                     ELSE IF o.ret = "True"
                     THEN /\ pc' = pc
                          /\ ret' = ret
                          /\ \E more \in Perms(ArcsToRecheck(x, y)) :
                                queue' = rest \o more
                     ELSE /\ pc' = pc
                          /\ ret' = ret
                          /\ queue' = rest
    /\ UNCHANGED <<crossword, call, pre, cur, stack, result>>

RECURSIVE AC3Run(_, _)
(* Lines 150-158 run to the end as a function of the domains and the      *)
(* worklist: the run that pops the front (queue.pop(0)) and takes one      *)
(* fixed iteration order of every set it meets.  It gives the value        *)
(* returned ("True", "False") or the exception raised, and the domains     *)
(* left behind.                                                            *)
AC3Run(doms, worklist) ==
    IF worklist = <<>> THEN [ret |-> "True", domains |-> doms]
    ELSE LET x == Head(worklist)[1]
             y == Head(worklist)[2]
             o == CHOOSE o \in ReviseOutcomes(doms, x, y) : TRUE
             after == [doms EXCEPT ![x] = o.dom]
         IN  IF o.ret = "IndexError"
                THEN [ret |-> "IndexError", domains |-> after]
             ELSE IF o.ret = "True" /\ DomainEmptied(o.dom)
                THEN [ret |-> "False", domains |-> after]
             ELSE IF o.ret = "True"
                THEN AC3Run(after,
                            Tail(worklist) \o
                              (CHOOSE more \in Perms(ArcsToRecheck(x, y)) :
                                  TRUE))
             ELSE AC3Run(doms, Tail(worklist))

----------------------------------------------------------------------------
(* assignment_complete, consistent *)

AssignmentComplete(assignment) ==
    \A variable \in DOMAIN domains : variable \in Keys(assignment)

(* What the body of consistent's outer loop does with item k of the        *)
(* assignment: "False" (return False), "IndexError" (the neighbour's word  *)
(* is shorter than the overlap index j needs: its length is only checked   *)
(* when its own item comes up), or "pass" (go on to the next item).        *)
(* assigned_words holds the words of the items before k.  The neighbours   *)
(* are iterated in any order, so the first offending one decides.          *)
ConsistentItemRepeatsAllowed(assignment, k) ==
    LET variable      == assignment[k][1]
        assigned_word == assignment[k][2]
        neighbours == Neighbors(variable) \cap Keys(assignment)
        j(n) == crossword.overlaps[<<variable, n>>][2]
        i(n) == crossword.overlaps[<<variable, n>>][1]
        raising  == {n \in neighbours : j(n) >= Len(Lookup(assignment, n))}
        mismatch == {n \in neighbours :
                        /\ j(n) < Len(Lookup(assignment, n))
                        /\ assigned_word[i(n) + 1] #
                               Lookup(assignment, n)[j(n) + 1]}
    IN  IF Len(assigned_word) # variable.length THEN {"False"}
        ELSE IF raising = {} /\ mismatch = {} THEN {"pass"}
        ELSE (IF raising # {} THEN {"IndexError"} ELSE {})
             \cup (IF mismatch # {} THEN {"False"} ELSE {})

ConsistentItem(assignment, k) ==
    LET variable      == assignment[k][1]
        assigned_word == assignment[k][2]
        assigned_words == {assignment[m][2] : m \in 1..(k - 1)}
        neighbours == Neighbors(variable) \cap Keys(assignment)
        j(n) == crossword.overlaps[<<variable, n>>][2]
        i(n) == crossword.overlaps[<<variable, n>>][1]
        raising  == {n \in neighbours : j(n) >= Len(Lookup(assignment, n))}
        mismatch == {n \in neighbours :
                        /\ j(n) < Len(Lookup(assignment, n))
                        /\ assigned_word[i(n) + 1] #
                               Lookup(assignment, n)[j(n) + 1]}
    IN  IF assigned_word \in assigned_words THEN {"False"}
        ELSE IF Len(assigned_word) # variable.length THEN {"False"}
        ELSE IF raising = {} /\ mismatch = {} THEN {"pass"}
        ELSE (IF raising # {} THEN {"IndexError"} ELSE {})
             \cup (IF mismatch # {} THEN {"False"} ELSE {})

RECURSIVE ConsistentFrom(_, _)
ConsistentFrom(assignment, k) ==
    IF k > Len(assignment) THEN {"True"}
    ELSE LET item == ConsistentItem(assignment, k)
         IN  IF item = {"pass"} THEN ConsistentFrom(assignment, k + 1)
             ELSE item

\* The outcomes of consistent(assignment): "True", "False" or "IndexError".
ConsistentOutcomes(assignment) == ConsistentFrom(assignment, 1)

----------------------------------------------------------------------------
(* select_unassigned_variable *)

Degree(var) == Cardinality(Neighbors(var))

(* Lines 241-247.  remaining lists the unassigned variables of minimal     *)
(* domain size in the iteration order of self.domains; a single one is     *)
(* returned as it is, otherwise the list is sorted by ascending number of  *)
(* neighbours (a stable sort) and its first element is returned: the one   *)
(* with the FEWEST neighbours that comes first in self.domains.  That      *)
(* order is any order, so any variable of the lowest degree may come out.  *)
(* assigned is the key set of the assignment, all the function reads.      *)
SelectOutcomes(doms, assigned) ==
    LET unassigned == DOMAIN doms \ assigned
        size(var) == Cardinality(doms[var])
        remaining == {var \in unassigned :
                         \A other \in unassigned : size(var) <= size(other)}
    IN  {var \in remaining :
            \A other \in remaining : Degree(var) <= Degree(other)}

----------------------------------------------------------------------------
(* order_domain_values *)

RECURSIVE SumOver(_, _)
\* sum(...) of line 214 and the += over the neighbours: term is a function.
SumOver(S, term) ==
    IF S = {} THEN 0
    ELSE LET n == CHOOSE n \in S : TRUE
         IN  term[n] + SumOver(S \ {n}, term)

\* Lines 207-209: the neighbours of var that are not keys of the assignment.
UnassignedNeighbours(var, assigned) == Neighbors(var) \ assigned

(* Lines 214-217 index word[i] and word_neighbour[j] for every word of the *)
(* neighbour's domain, with no length check: a word too short for its      *)
(* index raises IndexError (nothing is indexed when the neighbour's domain *)
(* is empty).                                                              *)
OrderRaises(doms, var, assigned) ==
    \E word \in doms[var], neighbour \in UnassignedNeighbours(var, assigned) :
        LET i == crossword.overlaps[<<var, neighbour>>][1]
            j == crossword.overlaps[<<var, neighbour>>][2]
        IN  /\ doms[neighbour] # {}
            /\ \/ i >= Len(word)
               \/ \E word_neighbour \in doms[neighbour] :
                      j >= Len(word_neighbour)

\* Lines 206-217: the heuristic of word counts, over the unassigned
\* neighbours, the words of the neighbour's domain that MATCH word at the
\* overlap.
Heuristic(doms, var, assigned, word) ==
    SumOver(UnassignedNeighbours(var, assigned),
            [neighbour \in UnassignedNeighbours(var, assigned) |->
                LET i == crossword.overlaps[<<var, neighbour>>][1]
                    j == crossword.overlaps[<<var, neighbour>>][2]
                IN  Cardinality({word_neighbour \in doms[neighbour] :
                                    word[i + 1] = word_neighbour[j + 1]})])

HeuristicOrderAscending(first, second) == first <= second

\* Line 220: sort(key=heuristic, reverse=True): the larger heuristic first.
HeuristicOrder(first, second) == first >= second

(* Lines 204-222.  heuristics is built in the iteration order of the       *)
(* domain (a set: any order) and sorted by a stable sort, so words of      *)
(* equal heuristic come out in any order: every list of the domain's words *)
(* that the sort key orders is a possible return value.                    *)
OrderOutcomes(doms, var, assigned) ==
    IF OrderRaises(doms, var, assigned)
    THEN {[ret |-> "IndexError", domain_values |-> <<>>]}
    ELSE {[ret |-> "list", domain_values |-> domain_values] :
            domain_values \in
              {values \in Perms(doms[var]) :
                 \A k \in 1..(Len(values) - 1) :
                    HeuristicOrder(
                        Heuristic(doms, var, assigned, values[k]),
                        Heuristic(doms, var, assigned, values[k + 1]))}}

----------------------------------------------------------------------------
(* backtrack *)

(* backtrack(assignment) is recursive.  cur is the argument of the call    *)
(* being entered; stack holds, for every call suspended in its for loop,   *)
(* its assignment, its variable and the words of the domain not yet tried  *)
(* (the domain is a set: the words come in any order).                     *)

\* The innermost suspended call.
Top == stack[Len(stack)]

\* Lines 258-260: entry of a call.
BacktrackEnter ==
    /\ pc = "bt_call"
    /\ IF AssignmentComplete(cur)
          THEN \* every suspended call returns the result at once (267-269)
               /\ result' = cur
               /\ ret' = "assignment"
               /\ pc' = "returned"
               /\ stack' = <<>>
          ELSE /\ \E variable \in SelectOutcomes(domains, Keys(cur)) :
                     stack' = Append(stack, [assignment |-> cur,
                                             variable   |-> variable,
                                             todo       |-> domains[variable]])
               /\ pc' = "bt_loop"
               /\ UNCHANGED <<result, ret>>
    /\ UNCHANGED <<crossword, domains, call, pre, queue, cur>>

BacktrackTryConsuming ==
    /\ pc = "bt_loop"
    /\ Top.todo # {}
    /\ \E word \in Top.todo :
         LET new_assignment == Append(Top.assignment, <<Top.variable, word>>)
             rest == [stack EXCEPT ![Len(stack)].todo = Top.todo \ {word}]
         IN  \E c \in ConsistentOutcomes(new_assignment) :
               /\ stack' = rest
               /\ domains' = [domains EXCEPT ![Top.variable] = @ \ {word}]
               /\ IF c = "IndexError"
                     THEN pc' = "raised" /\ ret' = "IndexError" /\ cur' = cur
                     ELSE IF c = "True"
                     THEN pc' = "bt_call" /\ ret' = ret /\ cur' = new_assignment
                     ELSE pc' = pc /\ ret' = ret /\ cur' = cur
    /\ UNCHANGED <<crossword, call, pre, queue, result>>

\* Lines 261-266: one iteration of the for loop of the innermost call.
BacktrackTry ==
    /\ pc = "bt_loop"
    /\ Top.todo # {}
    /\ \E word \in Top.todo :
         LET new_assignment == Append(Top.assignment, <<Top.variable, word>>)
             rest == [stack EXCEPT ![Len(stack)].todo = Top.todo \ {word}]
         IN  \E c \in ConsistentOutcomes(new_assignment) :
               /\ stack' = rest
               /\ IF c = "IndexError"
                     THEN pc' = "raised" /\ ret' = "IndexError" /\ cur' = cur
                     ELSE IF c = "True"
                     THEN pc' = "bt_call" /\ ret' = ret /\ cur' = new_assignment
                     ELSE pc' = pc /\ ret' = ret /\ cur' = cur
    /\ UNCHANGED <<crossword, domains, call, pre, queue, result>>

BacktrackFailReturnsAssignment ==
    /\ pc = "bt_loop"
    /\ Top.todo = {}
    /\ stack' = SubSeq(stack, 1, Len(stack) - 1)
    /\ IF Len(stack) = 1
          THEN pc' = "returned" /\ ret' = "assignment"
          ELSE pc' = pc /\ ret' = ret
    /\ UNCHANGED <<crossword, domains, call, pre, queue, cur, result>>

\* Line 270: the for loop is exhausted, the call returns None.
BacktrackFail ==
    /\ pc = "bt_loop"
    /\ Top.todo = {}
    /\ stack' = SubSeq(stack, 1, Len(stack) - 1)
    /\ IF Len(stack) = 1
          THEN pc' = "returned" /\ ret' = "None"
          ELSE pc' = pc /\ ret' = ret
    /\ UNCHANGED <<crossword, domains, call, pre, queue, cur, result>>

----------------------------------------------------------------------------
(* solve *)

\* Line 96: solve() begins with enforce_node_consistency.
SolveEnforce ==
    /\ pc = "idle"
    /\ call' = [op |-> "solve"]
    /\ pre' = domains
    /\ domains' = EnforceNodeConsistency(domains)
    /\ pc' = "solve_ac3"
    /\ UNCHANGED <<crossword, ret, queue, cur, stack, result>>

\* Line 97: self.ac3() with arcs=None: the queue is list(set of all arcs).
SolveAC3 ==
    /\ pc = "solve_ac3"
    /\ pre' = domains
    /\ \E arcs \in Perms(AllArcs) : queue' = arcs
    /\ pc' = "ac3_loop"
    /\ UNCHANGED <<crossword, domains, call, ret, cur, stack, result>>

\* Line 98: return self.backtrack(dict()), whatever ac3 returned: the value
\* of line 97 is dropped (call.ac3 keeps it for the record).
SolveBacktrack ==
    /\ pc = "solve_backtrack"
    /\ call' = [op |-> "solve", ac3 |-> ret]
    /\ cur' = <<>>
    /\ stack' = <<>>
    /\ pc' = "bt_call"
    /\ UNCHANGED <<crossword, domains, pre, ret, queue, result>>

----------------------------------------------------------------------------
(* Specification Spec: solve() on a freshly constructed CrosswordCreator *)

\* __init__ (lines 12-15): every variable starts with a copy of the pool.
Constructed(grid, pool) ==
    /\ crossword = Crossword(grid, pool)
    /\ domains = [var \in grid |-> pool]
    /\ pc = "idle"
    /\ call = [op |-> "none"]
    /\ pre = [var \in grid |-> pool]
    /\ ret = "none"
    /\ queue = <<>>
    /\ cur = <<>>
    /\ stack = <<>>
    /\ result = <<>>

Init == \E grid \in Grids, pool \in Pools(MaxWords) : Constructed(grid, pool)

Next ==
    \/ SolveEnforce
    \/ SolveAC3
    \/ AC3Step
    \/ AC3Return
    \/ SolveBacktrack
    \/ BacktrackEnter
    \/ BacktrackTry
    \/ BacktrackFail

Spec == Init /\ [][Next]_vars

----------------------------------------------------------------------------
(* Single calls on a solver whose domains the caller has set               *)
(* (self.domains is a public attribute; each domain is a subset of the     *)
(* word pool, of any word lengths: the state before, between or after the  *)
(* stages of solve()).                                                      *)

DomainsSet(grid, pool, doms) ==
    /\ crossword = Crossword(grid, pool)
    /\ domains = doms
    /\ pc = "idle"
    /\ call = [op |-> "none"]
    /\ pre = doms
    /\ ret = "none"
    /\ queue = <<>>
    /\ cur = <<>>
    /\ stack = <<>>
    /\ result = <<>>

InitDomainsSet(n) ==
    \E grid \in Grids, pool \in Pools(n) :
        \E doms \in [grid -> SUBSET pool] : DomainsSet(grid, pool, doms)

InitPropagate == InitDomainsSet(MaxPropagateWords)

InitSearch == InitDomainsSet(MaxWords)

\* Longest list of arcs a caller passes to ac3(arcs).
MaxArcs == 2

\* The ordered pairs of distinct variables: the keys of crossword.overlaps.
Pairs == {q \in crossword.variables \X crossword.variables : q[1] # q[2]}

\* enforce_node_consistency()
CallEnforceNodeConsistency ==
    /\ pc = "idle"
    /\ call' = [op |-> "enforce_node_consistency"]
    /\ pre' = domains
    /\ domains' = EnforceNodeConsistency(domains)
    /\ pc' = "returned"
    /\ ret' = "None"
    /\ UNCHANGED <<crossword, queue, cur, stack, result>>

\* revise(x, y), as a first call or repeated right after it returned.
CallRevise ==
    /\ \/ pc = "idle"
       \/ pc = "returned" /\ call.op = "revise" /\ call.after = <<>>
    /\ \E q \in Pairs :
         /\ pc = "returned" => q = <<call.x, call.y>>
         /\ \E o \in ReviseOutcomes(domains, q[1], q[2]) :
             /\ call' = [op |-> "revise", x |-> q[1], y |-> q[2],
                         after |-> IF pc = "idle" THEN <<>>
                                   ELSE <<call.x, call.y, ret>>]
             /\ pre' = domains
             /\ domains' = [domains EXCEPT ![q[1]] = o.dom]
             /\ ret' = o.ret
             /\ pc' = IF o.ret = "IndexError" THEN "raised" ELSE "returned"
    /\ UNCHANGED <<crossword, queue, cur, stack, result>>

\* ac3(): arcs is None, the queue is list(set of all arcs), in any order.
CallAC3 ==
    /\ pc = "idle"
    /\ call' = [op |-> "ac3", arcs |-> "default"]
    /\ pre' = domains
    /\ \E arcs \in Perms(AllArcs) : queue' = arcs
    /\ pc' = "ac3_loop"
    /\ UNCHANGED <<crossword, domains, ret, cur, stack, result>>

\* ac3(arcs) with a list of the caller's choice of some of the arcs.
CallAC3Arcs ==
    /\ pc = "idle"
    /\ call' = [op |-> "ac3", arcs |-> "given"]
    /\ pre' = domains
    /\ \E arcs \in Lists(AllArcs, MaxArcs) : queue' = arcs
    /\ pc' = "ac3_loop"
    /\ UNCHANGED <<crossword, domains, ret, cur, stack, result>>

NextPropagate ==
    \/ CallEnforceNodeConsistency
    \/ CallRevise
    \/ CallAC3
    \/ CallAC3Arcs
    \/ AC3Step
    \/ AC3Return

SpecPropagate == InitPropagate /\ [][NextPropagate]_vars

\* backtrack(dict())
CallBacktrack ==
    /\ pc = "idle"
    /\ call' = [op |-> "backtrack"]
    /\ pre' = domains
    /\ cur' = <<>>
    /\ stack' = <<>>
    /\ pc' = "bt_call"
    /\ UNCHANGED <<crossword, domains, ret, queue, result>>

\* select_unassigned_variable(assignment), some variable being unassigned;
\* the function reads only the keys of the assignment.
CallSelectUnassignedVariable ==
    /\ pc = "idle"
    /\ \E assigned \in SUBSET crossword.variables :
         /\ assigned # crossword.variables
         /\ call' = [op |-> "select_unassigned_variable", assigned |-> assigned]
         /\ \E var \in SelectOutcomes(domains, assigned) : result' = var
    /\ pre' = domains
    /\ ret' = "variable"
    /\ pc' = "returned"
    /\ UNCHANGED <<crossword, domains, queue, cur, stack>>

NextSearch ==
    \/ CallBacktrack
    \/ BacktrackEnter
    \/ BacktrackTry
    \/ BacktrackFail
    \/ CallSelectUnassignedVariable

SpecSearch == InitSearch /\ [][NextSearch]_vars

\* consistent(assignment), for any dict from variables to words of the pool.
CallConsistent ==
    /\ pc = "idle"
    /\ \E assignment \in Assignments(crossword.variables, crossword.words) :
         /\ call' = [op |-> "consistent", assignment |-> assignment]
         /\ \E c \in ConsistentOutcomes(assignment) :
              /\ ret' = c
              /\ pc' = IF c = "IndexError" THEN "raised" ELSE "returned"
    /\ UNCHANGED <<crossword, domains, pre, queue, cur, stack, result>>

NextConsistent == CallConsistent

SpecConsistent == Init /\ [][NextConsistent]_vars

\* order_domain_values(var, assignment); the function reads only the keys of
\* the assignment, and var is not one of them.
CallOrderDomainValues ==
    /\ pc = "idle"
    /\ \E var \in crossword.variables :
         \E assigned \in SUBSET (crossword.variables \ {var}) :
           /\ call' = [op |-> "order_domain_values", var |-> var,
                       assigned |-> assigned]
           /\ \E o \in OrderOutcomes(domains, var, assigned) :
                /\ result' = o.domain_values
                /\ ret' = o.ret
                /\ pc' = IF o.ret = "IndexError" THEN "raised" ELSE "returned"
    /\ pre' = domains
    /\ UNCHANGED <<crossword, domains, queue, cur, stack>>

NextOrder == CallOrderDomainValues

SpecOrder == InitPropagate /\ [][NextOrder]_vars

(* ac3(arcs) with any set of the arcs as its initial worklist (all of them  *)
(* is the call ac3()).  The steps that follow revise the queued arcs in    *)
(* any order, so the list is handed over in one order only; call.initial   *)
(* keeps it.                                                               *)
CallAC3AnyOrder ==
    /\ pc = "idle"
    /\ pre' = domains
    /\ \E arcs \in SUBSET AllArcs :
         /\ queue' = (CHOOSE list \in Perms(arcs) : TRUE)
         /\ call' = [op |-> "ac3", arcs |-> "given", initial |-> queue']
    /\ pc' = "ac3_loop"
    /\ UNCHANGED <<crossword, domains, ret, cur, stack, result>>

NextAnyOrder ==
    \/ CallAC3AnyOrder
    \/ AC3StepAnyOrder
    \/ AC3Return

SpecAnyOrder == InitPropagate /\ [][NextAnyOrder]_vars

(* ac3 as a running call: once called, the while loop of lines 150-157     *)
(* keeps iterating and line 158 is reached when it is left (the program is *)
(* sequential: a step that can be taken is taken), hence weak fairness of  *)
(* the two steps of ac3; nothing obliges the caller to make a call.        *)
NextTerminate ==
    \/ CallAC3
    \/ CallAC3Arcs
    \/ AC3Step
    \/ AC3Return

SpecTerminate ==
    /\ InitPropagate
    /\ [][NextTerminate]_vars
    /\ WF_vars(AC3Step)
    /\ WF_vars(AC3Return)




----------------------------------------------------------------------------
(* What the claims speak of *)

\* The dict a as a function from its keys.
AsFunction(a) == [v \in Keys(a) |-> Lookup(a, v)]

\* f, a function from some variables to words, breaks no constraint: no word
\* is used twice, every word has its variable's length, and every two
\* variables that overlap at (i, j) carry the same letter there.
Satisfies(f) ==
    /\ \A u, v \in DOMAIN f : u # v => f[u] # f[v]
    /\ \A v \in DOMAIN f : Len(f[v]) = v.length
    /\ \A u, v \in DOMAIN f :
         (u # v /\ crossword.overlaps[<<u, v>>] # None) =>
            LET o == crossword.overlaps[<<u, v>>]
            IN  f[u][o[1] + 1] = f[v][o[2] + 1]

\* Some assignment of every variable, each word drawn from doms, satisfies
\* all constraints.
SolutionIn(doms) ==
    \E f \in [crossword.variables -> UNION {doms[v] : v \in DOMAIN doms}] :
        /\ \A v \in crossword.variables : f[v] \in doms[v]
        /\ Satisfies(f)

\* word w of x has a partner in the domain of y at the overlap (i, j).
Supported(doms, x, y, w) ==
    LET o == crossword.overlaps[<<x, y>>]
    IN  \E u \in doms[y] :
          /\ o[1] < Len(w)
          /\ o[2] < Len(u)
          /\ w[o[1] + 1] = u[o[2] + 1]

Finished == pc \in {"returned", "raised"}

----------------------------------------------------------------------------
(* Claims *)

\* C1: whenever solve() returns something other than None, the returned
\* mapping has an entry for every variable of the crossword and satisfies
\* all constraints (distinct words, matching lengths, agreeing overlaps);
\* solve() returns nothing but such a mapping or None.
C1_SolveSound ==
    (call.op = "solve" /\ pc = "returned") =>
        /\ ret \in {"assignment", "None"}
        /\ ret = "assignment" =>
              /\ Keys(result) = crossword.variables
              /\ Len(result) = Cardinality(crossword.variables)
              /\ Satisfies(AsFunction(result))

\* C1 witness: solve() returned an assignment of a three-variable crossword.
C1_Witness ==
    /\ call.op = "solve"
    /\ pc = "returned"
    /\ ret = "assignment"
    /\ Cardinality(crossword.variables) = 3

\* C2: solve() returns an assignment exactly when some mapping of every
\* variable to a word of the original pool satisfies all constraints; node
\* consistency and ac3 never prune a solvable problem into failure.
C2_SolveIffSolutionExists ==
    (call.op = "solve" /\ Finished) =>
        /\ pc = "returned"
        /\ ret = "assignment" <=>
              SolutionIn([v \in crossword.variables |-> crossword.words])

\* C2 witness: solve() succeeded after ac3 had removed words from a domain.
C2_Witness ==
    /\ call.op = "solve"
    /\ pc = "returned"
    /\ ret = "assignment"
    /\ \E v \in crossword.variables :
         domains[v] # {w \in crossword.words : Len(w) = v.length}

\* C3: backtrack(dict()) returns an assignment whenever some complete
\* assignment drawn from the current domains satisfies all constraints.
C3_BacktrackComplete ==
    (call.op = "backtrack" /\ Finished /\ SolutionIn(domains)) =>
        ret = "assignment"

\* C4: when ac3() with the default arcs returns True, every word left in
\* the domain of x has a compatible word left in the domain of y, for every
\* ordered pair (x, y) of neighbouring variables.
C4_ArcConsistentAtFixpoint ==
    (call.op = "ac3" /\ call.arcs = "default" /\ pc = "returned"
        /\ ret = "True") =>
        \A arc \in AllArcs :
            \A w \in domains[arc[1]] : Supported(domains, arc[1], arc[2], w)

\* C4 witness: ac3() returned True on three variables after pruning the
\* domains of two of them.
C4_Witness ==
    /\ call.op = "ac3"
    /\ call.arcs = "default"
    /\ pc = "returned"
    /\ ret = "True"
    /\ Cardinality({v \in crossword.variables : domains[v] # pre[v]}) >= 2

\* C5: whenever ac3 (any initial arcs, any starting domains) returns False,
\* some variable's domain is empty at that moment.
C5_FailureHasEmptyDomain ==
    (call.op = "ac3" /\ pc = "returned" /\ ret = "False") =>
        \E v \in crossword.variables : domains[v] = {}

\* C5 witness: ac3(arcs) with a caller's arc list returned False although no
\* domain was empty when it was called.
C5_Witness ==
    /\ call.op = "ac3"
    /\ call.arcs = "given"
    /\ pc = "returned"
    /\ ret = "False"
    /\ \A v \in crossword.variables : pre[v] # {}

\* C6: when ac3() returns True, every variable's domain is non-empty.
C6_SuccessHasNoEmptyDomain ==
    (call.op = "ac3" /\ pc = "returned" /\ ret = "True") =>
        \A v \in crossword.variables : domains[v] # {}

\* C7: after enforce_node_consistency every word left in a variable's domain
\* has the variable's length, no word of that length was removed from its
\* previous domain, and no word was added.
C7_NodeConsistencyExact ==
    (call.op = "enforce_node_consistency" /\ pc = "returned") =>
        \A v \in crossword.variables :
            /\ \A w \in domains[v] : Len(w) = v.length
            /\ \A w \in pre[v] : Len(w) = v.length => w \in domains[v]
            /\ domains[v] \subseteq pre[v]

\* C7 witness: enforce_node_consistency removed a word from a domain and
\* kept another word of that domain.
C7_Witness ==
    /\ call.op = "enforce_node_consistency"
    /\ pc = "returned"
    /\ \E v \in crossword.variables :
         domains[v] # {} /\ domains[v] # pre[v]

\* C8 as stated: for any domains and any pair x, y, revise(x, y) returns
\* True iff it removed a word from x's domain; it returns False and changes
\* nothing when the overlap of (x, y) is None; called again right after, it
\* returns False and leaves the domains unchanged.
C8_ReviseAnyDomains ==
    (call.op = "revise" /\ Finished) =>
        /\ ret = "True" <=> domains[call.x] # pre[call.x]
        /\ crossword.overlaps[<<call.x, call.y>>] = None =>
              ret = "False" /\ domains = pre
        /\ call.after # <<>> => ret = "False" /\ domains = pre

\* Every word of x's and of y's domain reaches the overlap index of (x, y),
\* as after enforce_node_consistency.
LongEnough(doms, x, y) ==
    LET o == crossword.overlaps[<<x, y>>]
    IN  o # None =>
          /\ \A w \in doms[x] : o[1] < Len(w)
          /\ \A u \in doms[y] : o[2] < Len(u)

\* C8 amended: when every word of the two domains reaches the overlap index,
\* revise(x, y) returns a boolean, True iff it removed a word from x's
\* domain, removing only words of x; it returns False and changes nothing
\* when the overlap is None; repeated right after, it returns False and
\* changes nothing.
C8_ReviseIdempotent ==
    (call.op = "revise" /\ Finished /\ LongEnough(pre, call.x, call.y)) =>
        /\ pc = "returned"
        /\ ret \in {"True", "False"}
        /\ ret = "True" <=> domains[call.x] # pre[call.x]
        /\ domains[call.x] \subseteq pre[call.x]
        /\ \A v \in crossword.variables : v # call.x => domains[v] = pre[v]
        /\ crossword.overlaps[<<call.x, call.y>>] = None =>
              ret = "False" /\ domains = pre
        /\ call.after # <<>> => ret = "False" /\ domains = pre

\* C8 witness: the second of two revise(x, y) calls returned, the first
\* having removed a word.
C8_Witness ==
    /\ call.op = "revise"
    /\ pc = "returned"
    /\ LongEnough(pre, call.x, call.y)
    /\ call.after = <<call.x, call.y, "True">>

\* C9: consistent(assignment) answers with a boolean for every assignment,
\* and with True exactly when no word is repeated, every word has its
\* variable's length and all assigned overlapping pairs agree.
C9_ConsistentIffValid ==
    (call.op = "consistent" /\ Finished) =>
        /\ ret \in {"True", "False"}
        /\ ret = "True" <=> Satisfies(AsFunction(call.assignment))

\* C10: select_unassigned_variable returns an unassigned variable of
\* minimal domain size which, among the unassigned variables of that size,
\* has the most neighbours.
C10_SelectMinDomainMaxDegree ==
    (call.op = "select_unassigned_variable" /\ pc = "returned") =>
        LET unassigned == crossword.variables \ call.assigned
        IN  /\ result \in unassigned
            /\ \A other \in unassigned :
                  Cardinality(domains[result]) <= Cardinality(domains[other])
            /\ \A other \in unassigned :
                  Cardinality(domains[other]) = Cardinality(domains[result])
                      => Degree(result) >= Degree(other)

----------------------------------------------------------------------------
\* The number of words w rules out for the neighbours of var that are not
\* assigned: the words of their domains that disagree with w at the overlap.
EliminationCount(doms, var, assigned, w) ==
    SumOver(Neighbors(var) \ assigned,
            [n \in Neighbors(var) \ assigned |->
                LET i == crossword.overlaps[<<var, n>>][1]
                    j == crossword.overlaps[<<var, n>>][2]
                IN  Cardinality({u \in doms[n] : w[i + 1] # u[j + 1]})])

\* C11: the list order_domain_values(var, assignment) returns is a
\* permutation of var's domain along which the elimination count never
\* decreases, so a word ruling out the fewest neighbouring values is first.
C11_OrderLeastConstrainingFirst ==
    (call.op = "order_domain_values" /\ pc = "returned") =>
        /\ Range(result) = domains[call.var]
        /\ Len(result) = Cardinality(domains[call.var])
        /\ \A k \in 1..(Len(result) - 1) :
              EliminationCount(domains, call.var, call.assigned, result[k])
                <= EliminationCount(domains, call.var, call.assigned,
                                    result[k + 1])
        /\ \A k \in 1..Len(result) :
              EliminationCount(domains, call.var, call.assigned, result[1])
                <= EliminationCount(domains, call.var, call.assigned,
                                    result[k])

\* A returned list of two words that rule out different numbers of values,
\* one neighbour being assigned and another not.
C11_Witness ==
    /\ call.op = "order_domain_values"
    /\ pc = "returned"
    /\ Len(result) >= 2
    /\ call.assigned \cap Neighbors(call.var) # {}
    /\ Neighbors(call.var) \ call.assigned # {}
    /\ EliminationCount(domains, call.var, call.assigned, result[1])
         < EliminationCount(domains, call.var, call.assigned, result[2])

----------------------------------------------------------------------------
\* C12: when solve() reaches its search with some domain empty, it returns
\* None: so it does when the pool has no word of some variable's length, and
\* in every run in which the ac3 call of solve returned False (the value
\* solve ignores).
C12_EmptyDomainFails ==
    (call.op = "solve" /\ Finished) =>
        ((\/ \E v \in DOMAIN domains : domains[v] = {}
          \/ \E v \in crossword.variables :
                \A w \in crossword.words : Len(w) # v.length
          \/ call.ac3 = "False")
            => (pc = "returned" /\ ret = "None"))

\* solve() has returned after its ac3 returned False on domains that
\* enforce_node_consistency had left non-empty.
C12_Witness ==
    /\ call.op = "solve"
    /\ Finished
    /\ call.ac3 = "False"
    /\ \A v \in DOMAIN pre : pre[v] # {}
    /\ ret = "None"

----------------------------------------------------------------------------
\* C13: at every search node backtrack tries the words of the selected
\* variable in the order of order_domain_values: a word it has already tried
\* never rules out more neighbouring values than a word it has yet to try.
C13_BacktrackTriesInHeuristicOrder ==
    call.op = "solve" =>
        \A k \in 1..Len(stack) :
            LET variable == stack[k].variable
                assigned == Keys(stack[k].assignment)
            IN  \A tried \in domains[variable] \ stack[k].todo :
                  \A untried \in stack[k].todo :
                     EliminationCount(domains, variable, assigned, tried)
                       <= EliminationCount(domains, variable, assigned,
                                           untried)

----------------------------------------------------------------------------
\* The stages of solve() in which only backtrack and the functions it calls
\* (assignment_complete, select_unassigned_variable, consistent) run.
Searching == pc \in {"solve_backtrack", "bt_call", "bt_loop"}

\* C14: domains only shrink.  In every run of solve() each domain starts as
\* the whole word pool; every step leaves every domain a subset of its
\* previous value and of the pool; a step of ac3 changes the domain of the
\* revised variable only (the domains are separate copies); and the steps
\* of the search leave all domains unchanged.
C14_DomainsOnlyShrink ==
    [][/\ pc = "idle" =>
            \A v \in crossword.variables : domains[v] = crossword.words
       /\ DOMAIN domains' = DOMAIN domains
       /\ \A v \in DOMAIN domains :
            /\ domains'[v] \subseteq domains[v]
            /\ domains'[v] \subseteq crossword.words
       /\ pc = "ac3_loop" /\ Len(queue) > 0 =>
            \A v \in DOMAIN domains \ {Head(queue)[1]} :
                domains'[v] = domains[v]
       /\ Searching => domains' = domains]_vars

\* solve() has returned after enforce_node_consistency shrank the domain of
\* some variable and ac3 shrank it further.
C14_Witness ==
    /\ call.op = "solve"
    /\ Finished
    /\ \E v \in DOMAIN domains :
         /\ pre[v] # crossword.words
         /\ domains[v] # pre[v]
         /\ domains[v] # {}

----------------------------------------------------------------------------
\* The outcome of ac3 on the starting domains and the initial arcs of the
\* current call when the arcs are taken in one fixed order, front first.
ReferenceRun == AC3Run(pre, call.initial)

\* The words of each starting domain all have one length, so that whether
\* revise raises does not depend on the iteration order of a domain.
UniformLengths(doms) ==
    \A v \in DOMAIN doms : \A w, u \in doms[v] : Len(w) = Len(u)

AllLongEnough(doms) ==
    \A x \in DOMAIN doms : \A y \in DOMAIN doms \ {x} : LongEnough(doms, x, y)

----------------------------------------------------------------------------
\* C16 as stated: for any starting domains ac3 stops only with its worklist
\* empty, returning True, or by returning failure.
C16_StopsEmptyOrFailure ==
    (call.op = "ac3" /\ Finished) =>
        /\ pc = "returned"
        /\ (ret = "True" /\ queue = <<>>) \/ ret = "False"

\* Some revision emptied the domain of the variable it revised.
SomeDomainEmptied == \E v \in DOMAIN domains : domains[v] = {} /\ pre[v] # {}

\* C16 amended: for any starting domains and initial arcs ac3 terminates, by
\* returning or by raising IndexError; an iteration that does not shorten
\* the worklist strictly removes a word from a domain; and ac3 returns True
\* exactly when it stops with the worklist empty, no revision having
\* emptied the domain it revised.
C16_AC3Terminates ==
    /\ (pc = "ac3_loop") ~> Finished
    /\ [][pc = "ac3_loop" /\ queue # <<>> /\ Len(queue') >= Len(queue) =>
            /\ domains' # domains
            /\ \A v \in DOMAIN domains : domains'[v] \subseteq domains[v]]_vars
    /\ [](call.op = "ac3" /\ Finished =>
            (ret = "True" <=>
                pc = "returned" /\ queue = <<>> /\ ~SomeDomainEmptied))

\* ac3 returned True after an iteration had put an arc back on the worklist
\* (a domain shrank and the worklist, from fewer arcs than all, emptied).
C16_Witness ==
    /\ call.op = "ac3"
    /\ call.arcs = "given"
    /\ pc = "returned"
    /\ ret = "True"
    /\ queue = <<>>
    /\ \E x \in DOMAIN domains :
          domains[x] # pre[x] /\ Cardinality(Neighbors(x)) >= 2

====
